---- MODULE Spec2Model ----
(***************************************************************************)
(* A model of the image captioning pipeline (pipeline.py, captioners.py):  *)
(* construction of ImageCaptioningPipeline, process_single_image (fan-out  *)
(* over the captioners, merge, persist) and process_image_folder           *)
(* (discovery, per-image loop, summary).                                   *)
(*                                                                         *)
(* Python strings are sequences of tokens, so that "begins with" is a      *)
(* prefix test.  A Python value is a record [t, s]: a str with its tokens, *)
(* or None.  A path is a record [dir, name] with name = [stem, ext].       *)
(***************************************************************************)
EXTENDS Integers, Sequences, FiniteSets, TLC

\* ---------------------------------------------------------------- bounds
\* At most this many files in the input folder and its images/ subfolder.
MaxFiles == 2
\* At most this many backend faults (error, None) and I/O errors while one
\* image is processed on its own.
MaxFaults == 3
\* At most this many backend faults and I/O errors in one batch run.
MaxBatchFaults == 1
\* At most this many files in the input folder of a combined run.
MaxCombinedFiles == 1
\* At most this many sketch files left by one run of the external process.
MaxSketches == 1

\* ---------------------------------------------------------------- values
Str(tokens) == [t |-> "str", s |-> tokens]
NoneValue == [t |-> "NoneType", s |-> <<>>]

\* str.startswith
StartsWith(v, prefix) ==
    /\ v.t = "str"
    /\ Len(v.s) >= Len(prefix)
    /\ SubSeq(v.s, 1, Len(prefix)) = prefix

\* What a call does: returns a value, or raises an exception with a message.
Returned(v) == [raised |-> FALSE, value |-> v]
Raised(msg) == [raised |-> TRUE, value |-> Str(msg)]

\* The ways the remote model behind the merger can answer: a text, an error
\* of the SDK or the network, or a response whose .text is None.  For a
\* captioner the error also covers an image that cannot be read; a None
\* caption takes the same path through the pipeline as a text and is not
\* drawn.
BackendOutcomes == {"text", "error", "none"}
CaptionOutcomes == {"text", "error"}

\* ------------------------------------------------------------ captioners
CaptionerKinds == {"OpenAICaptioner", "FacebookCaptioner", "GoogleCaptioner"}

\* The vendor word each class puts in its sentinel.
SentinelVendor(kind) ==
    IF kind = "FacebookCaptioner" THEN "Llama" ELSE "Google"

\* A caption_image whose except clause re-raises instead of returning.
caption_image_propagating(kind, image_path, additional_context, outcome) ==
    CASE outcome = "text"  -> Returned(Str(<<"caption", "by", kind>>))
      [] outcome = "none"  -> Returned(NoneValue)
      [] outcome = "error" -> Raised(<<"detail">>)

\* OpenAICaptioner / FacebookCaptioner / GoogleCaptioner .caption_image: the
\* whole body is inside try/except Exception, which returns the sentinel.
caption_image(kind, image_path, additional_context, outcome) ==
    CASE outcome = "text"  -> Returned(Str(<<"caption", "by", kind>>))
      [] outcome = "none"  -> Returned(NoneValue)
      [] outcome = "error" ->
            Returned(Str(<<"Error", "generating", SentinelVendor(kind),
                           "caption:", "detail">>))

\* CaptionMerger.merge_captions: the prompt is built and the backend called
\* inside try/except Exception, which returns the sentinel.
merge_captions(captions, user_caption, image_name, outcome) ==
    CASE outcome = "text"  -> Returned(Str(<<"merged", image_name>>))
      [] outcome = "none"  -> Returned(NoneValue)
      [] outcome = "error" ->
            Returned(Str(<<"Error", "merging", "captions:", "detail">>))

\* ------------------------------------------------------------ file names
\* str.lower / str.upper on the extensions the model uses.
Lower(ext) ==
    CASE ext \in {".jpg", ".JPG", ".Jpg"} -> ".jpg"
      [] ext \in {".png", ".PNG", ".Png"} -> ".png"
      [] ext \in {".txt", ".TXT"} -> ".txt"
      [] ext = ".JPEG" -> ".jpeg"
      [] ext = ".GIF" -> ".gif"
      [] ext = ".BMP" -> ".bmp"
      [] ext = ".WEBP" -> ".webp"
      [] ext = ".TIFF" -> ".tiff"
      [] OTHER -> ext

Upper(ext) ==
    CASE ext \in {".jpg", ".JPG", ".Jpg"} -> ".JPG"
      [] ext \in {".png", ".PNG", ".Png"} -> ".PNG"
      [] ext \in {".txt", ".TXT"} -> ".TXT"
      [] ext = ".jpeg" -> ".JPEG"
      [] ext = ".gif" -> ".GIF"
      [] ext = ".bmp" -> ".BMP"
      [] ext = ".webp" -> ".WEBP"
      [] ext = ".tiff" -> ".TIFF"
      [] OTHER -> ext

File(stem, ext) == [stem |-> stem, ext |-> ext]

\* The files a folder of the model may hold.
FileNames ==
    {File("a", ".JPG"), File("a", ".png"), File("b", ".png"), File("b", ".Jpg"),
     File("n", ".txt")}

\* ------------------------------------------------------------- discovery
image_extensions == {".jpg", ".jpeg", ".png", ".gif", ".bmp", ".webp", ".tiff"}

Path(dir, name) == [dir |-> dir, name |-> name]
\* Path.stem and Path.name of a directory path (its last component).
Stem(path) == path.name.stem
DirName(dir) == dir[Len(dir)]

folder_path == <<"folder">>
images_folder == <<"folder", "images">>

\* Path.glob('*' + ext) over the files of one directory: the names ending in
\* ext.  pathlib compares case-sensitively on POSIX and case-insensitively on
\* Windows.
Glob(files, ext, caseInsensitive) ==
    {f \in files : IF caseInsensitive THEN Lower(f.ext) = Lower(ext)
                                      ELSE f.ext = ext}

\* The sequences that enumerate a finite set once each.
Perms(S) ==
    {p \in [1..Cardinality(S) -> S] : \A i, j \in 1..Cardinality(S) :
                                          p[i] = p[j] => i = j}

\* The matches of one glob, in the order the directory lists them.
Listed(listing, matches) ==
    LET Hit(f) == f \in matches IN SelectSeq(listing, Hit)

\* What one iteration of "for ext in image_extensions" appends: the glob of
\* the extension as written, then the glob of its upper-case form.
ExtChunk(listing, files, ext, caseInsensitive) ==
    Listed(listing, Glob(files, ext, caseInsensitive))
        \o Listed(listing, Glob(files, Upper(ext), caseInsensitive))

RECURSIVE Extend(_, _, _, _)
Extend(extOrder, listing, files, caseInsensitive) ==
    IF extOrder = <<>> THEN <<>>
    ELSE ExtChunk(listing, files, Head(extOrder), caseInsensitive)
            \o Extend(Tail(extOrder), listing, files, caseInsensitive)

\* The extensions whose iteration appends something; the place of the others
\* in the iteration order of the set changes nothing.
Relevant(files, caseInsensitive) ==
    {e \in image_extensions :
        Glob(files, e, caseInsensitive)
            \cup Glob(files, Upper(e), caseInsensitive) # {}}

\* The directory the discovery scans, and its files.
ScanDir(f) == IF f.images_exists THEN images_folder ELSE folder_path
ScanFiles(f) == IF f.images_exists THEN f.images_files ELSE f.files

\* ----------------------------------------------------------------- state
VARIABLES
    config,          \* which API keys the configuration holds
    captioners,      \* self.captioners: the classes, in construction order
    merger,          \* self.merger is not None
    caseInsensitive, \* the platform's pathlib globs ignoring case (Windows)
    fs,              \* the input folder: [exists, files, images_exists, images_files]
    mode,            \* the entry point this run calls
    pc,              \* where the run is
    frame,           \* the locals of process_single_image
    batch,           \* the locals of process_image_folder
    out,             \* the output directory: [dir, captions_dir, caption_files, summary]
    trace,           \* the backend calls and sleeps made so far, in order
    faults,          \* backend faults and I/O errors so far
    outcome,         \* what the entry call returned or raised
    combined,        \* the locals of CombinedPipeline.process_with_sketches
    sketch,          \* the sketch generator: what it read, ran and returned
    cli              \* the options main was started with

vars == <<config, captioners, merger, caseInsensitive, fs, mode, pc, frame,
          batch, out, trace, faults, outcome, combined, sketch, cli>>

NoFrame == [active |-> FALSE]
NoBatch == [active |-> FALSE]
Running == [status |-> "running"]
NoCombined == [active |-> FALSE]
\* No checkpoint looked for, no models listed, no external process started,
\* nothing returned.
NoSketch == [checkpoint |-> "-", listing |-> "-", runs |-> <<>>, returned |-> <<>>]
\* The run was not started from the command line.
NoCli == [active |-> FALSE]

EmptyStr == Str(<<>>)
UserCaptions == {EmptyStr, Str(<<"ctx">>)}
SingleFiles == {File("a", ".JPG")}
SingleImages == {Path(folder_path, f) : f \in SingleFiles}
CaptionSources == {"folder", "filename", "manual"}

StrayFiles == {File("a", ".JPG")}

Folders ==
    {[exists |-> FALSE, files |-> {}, images_exists |-> FALSE, images_files |-> {}]}
    \cup
    {[exists |-> TRUE, files |-> r, images_exists |-> ie, images_files |-> i] :
        r \in SUBSET FileNames, i \in SUBSET FileNames, ie \in BOOLEAN}

Init ==
    /\ config \in [openai_api_key : BOOLEAN, groq_api_key : BOOLEAN,
                   gemini_api_key : BOOLEAN]
    /\ captioners = <<>>
    /\ merger = FALSE
    /\ mode \in {"single", "folder", "combined", "sketch", "main"}
    /\ fs \in Folders
    /\ mode # "single" =>
            Cardinality(fs.files) + Cardinality(fs.images_files) <= MaxFiles
    /\ ~fs.images_exists => fs.images_files = {}
    \* Beside folder/images the folder holds no file, or one image.
    /\ fs.images_exists => fs.files \subseteq StrayFiles
    /\ caseInsensitive \in BOOLEAN
    \* Where globs ignore case every image is matched twice: the scanned
    \* directory then holds half as many files.
    /\ caseInsensitive => 2 * Cardinality(ScanFiles(fs)) <= MaxFiles
    \* A single image is processed without scanning its folder; a batch is
    \* drawn with at most two captioners.
    /\ mode = "single" => /\ fs = [exists |-> TRUE, files |-> SingleFiles,
                                   images_exists |-> FALSE, images_files |-> {}]
                          /\ ~caseInsensitive
    /\ mode = "folder" => ~config.openai_api_key
    \* A combined run is drawn with at most one captioner, on a platform
    \* whose globs match case; a sketch-only run constructs no captioning
    \* pipeline.
    /\ mode = "combined" => /\ ~config.openai_api_key
                            /\ ~config.groq_api_key
                            /\ ~caseInsensitive
                            /\ Cardinality(fs.files)
                                 + Cardinality(fs.images_files) <= MaxCombinedFiles
    /\ mode = "sketch" => config = [openai_api_key |-> FALSE,
                                    groq_api_key |-> FALSE,
                                    gemini_api_key |-> FALSE]
    \* A run from the command line is drawn with at most one key, on a
    \* platform whose globs match case.
    /\ mode = "main" => /\ ~config.openai_api_key
                        /\ ~(config.groq_api_key /\ config.gemini_api_key)
                        /\ ~caseInsensitive
                        /\ Cardinality(fs.files)
                             + Cardinality(fs.images_files) <= MaxCombinedFiles
    /\ pc = CASE mode = "sketch" -> "ready"
              [] mode = "main" -> "main"
              [] OTHER -> "new"
    /\ frame = NoFrame
    /\ batch = NoBatch
    /\ out = [dir |-> FALSE, captions_dir |-> FALSE, caption_files |-> {},
              summary |-> <<>>]
    /\ trace = <<>>
    /\ faults = 0
    /\ outcome = Running
    /\ combined = NoCombined
    /\ sketch = NoSketch
    /\ cli = NoCli

\* ---------------------------------------------------------- construction
\* _initialize_models: the captioners the keys give, in the fixed order.
InitializedCaptioners(cfg) ==
    (IF cfg.openai_api_key THEN <<"OpenAICaptioner">> ELSE <<>>)
    \o (IF cfg.groq_api_key THEN <<"FacebookCaptioner">> ELSE <<>>)
    \o (IF cfg.gemini_api_key THEN <<"GoogleCaptioner">> ELSE <<>>)

\* A construction that asks for some captioner only and builds the merger
\* when the gemini key allows it.
ConstructOkWithAnyKey ==
    /\ pc = "new"
    /\ InitializedCaptioners(config) # <<>>
    /\ captioners' = InitializedCaptioners(config)
    /\ merger' = config.gemini_api_key
    /\ pc' = "ready"
    /\ UNCHANGED <<cli, combined, sketch,
                   config, caseInsensitive, fs, mode, frame, batch, out, trace,
                   faults, outcome>>

ConstructOk ==
    /\ pc = "new"
    /\ InitializedCaptioners(config) # <<>>
    /\ config.gemini_api_key
    /\ captioners' = InitializedCaptioners(config)
    /\ merger' = TRUE
    /\ pc' = "ready"
    /\ UNCHANGED <<cli, combined, sketch,
                   config, caseInsensitive, fs, mode, frame, batch, out, trace,
                   faults, outcome>>

\* A construction that raises nothing and leaves the missing keys to be
\* found by the first call.
ConstructDeferred ==
    /\ pc = "new"
    /\ \/ InitializedCaptioners(config) = <<>>
       \/ ~config.gemini_api_key
    /\ captioners' = InitializedCaptioners(config)
    /\ pc' = "ready"
    /\ UNCHANGED <<cli, combined, sketch,
                   config, merger, caseInsensitive, fs, mode, frame, batch, out,
                   trace, faults, outcome>>

\* if not self.captioners / if not self.merger: raise ValueError, which the
\* except clause turns into RuntimeError("Failed to initialize models: ...")
ConstructRaises ==
    /\ pc = "new"
    /\ \/ InitializedCaptioners(config) = <<>>
       \/ ~config.gemini_api_key
    /\ pc' = "raised"
    /\ outcome' = [status |-> "raised", exception |-> "RuntimeError",
                   message |-> <<"Failed", "to", "initialize", "models:">> \o
                               (IF InitializedCaptioners(config) = <<>>
                                THEN <<"No", "valid", "API", "keys", "provided.",
                                       "Please", "check", "your",
                                       "configuration.">>
                                ELSE <<"No", "valid", "API", "key", "for",
                                       "caption", "merging.", "OpenAI", "API",
                                       "key", "is", "required", "for",
                                       "merging.">>)]
    /\ UNCHANGED <<cli, combined, sketch,
                   config, captioners, merger, caseInsensitive, fs, mode, frame,
                   batch, out, trace, faults>>

\* ------------------------------------------------- process_single_image
\* Labels that leave the index out: "Model" and "Model_Error".
SourceLabelWithoutIndex(i, failed) ==
    IF failed THEN <<"Model", "Error">> ELSE <<"Model">>

\* f"Model_{i+1}" and f"Model_{i+1}_Error"
SourceLabel(i, failed) ==
    IF failed THEN <<"Model", i, "Error">> ELSE <<"Model", i>>

\* dict[k] = v: a new key goes last, a key already present keeps its place
\* and takes the new value.
DictPut(d, k, v) ==
    IF \E j \in 1..Len(d) : d[j].key = k
    THEN [j \in 1..Len(d) |-> IF d[j].key = k THEN [key |-> k, value |-> v]
                                               ELSE d[j]]
    ELSE Append(d, [key |-> k, value |-> v])

\* dict(zip(keys, values)): the entries in insertion order.
RECURSIVE DictZipFrom(_, _, _, _)
DictZipFrom(d, keys, values, j) ==
    IF j > Len(keys) \/ j > Len(values) THEN d
    ELSE DictZipFrom(DictPut(d, keys[j], values[j]), keys, values, j + 1)

DictZip(keys, values) == DictZipFrom(<<>>, keys, values, 1)

CallEvent(i, kind, image_path, context) ==
    [op |-> "caption_image", index |-> i, captioner |-> kind,
     image_path |-> image_path, additional_context |-> context]
SleepEvent(tenths) == [op |-> "sleep", tenths |-> tenths]
MergeEvent(captions, user_caption, image_name) ==
    [op |-> "merge_captions", captions |-> captions,
     user_caption |-> user_caption, image_name |-> image_name]
SaveCaptionEvent(image_name) == [op |-> "_save_caption", image_name |-> image_name]
SaveSummaryEvent == [op |-> "_save_summary"]

NewFrame(image_path, user_caption, output_dir) ==
    [active |-> TRUE, image_path |-> image_path, user_caption |-> user_caption,
     output_dir |-> output_dir, captions |-> <<>>, caption_sources |-> <<>>,
     merged_caption |-> NoneValue, result |-> [success |-> FALSE],
     \* what the backends and the file system did during this call
     backend |-> <<>>, merge_backend |-> "-", save |-> "-"]

\* One iteration of the fan-out loop, given what captioner i did: the try
\* body appends the caption and "Model_i"; the except body appends the
\* failure text and "Model_i_Error".
AfterCaption(fr, i, r) ==
    IF ~r.raised
    THEN [fr EXCEPT !.captions = Append(@, r.value),
                    !.caption_sources = Append(@, SourceLabel(i, FALSE))]
    ELSE [fr EXCEPT !.captions =
                        Append(@, Str(<<"Failed", "to", "generate", "caption:">>
                                      \o r.value.s)),
                    !.caption_sources = Append(@, SourceLabel(i, TRUE))]

\* The events of an iteration that sleeps only after a caption that is not
\* an error text.
CaptionEventsSleepOnSuccess(fr, i, kind, r) ==
    <<CallEvent(i, kind, fr.image_path, fr.user_caption)>>
        \o (IF ~r.raised /\ ~StartsWith(r.value, <<"Error">>)
            THEN <<SleepEvent(10)>> ELSE <<>>)

\* The events of one iteration: the call, and the sleep the try body ends with.
CaptionEvents(fr, i, kind, r) ==
    <<CallEvent(i, kind, fr.image_path, fr.user_caption)>>
        \o (IF ~r.raised THEN <<SleepEvent(10)>> ELSE <<>>)

\* The merge step, given what merge_captions did.
AfterMerge(fr, r) ==
    IF ~r.raised
    THEN [fr EXCEPT !.merged_caption = r.value]
    ELSE [fr EXCEPT !.merged_caption =
                        Str(<<"Failed", "to", "merge", "captions:">> \o r.value.s)]

\* A result that takes a merged caption with error text for a failure.
SuccessResultUnlessErrorText(fr) ==
    IF StartsWith(fr.merged_caption, <<"Error">>)
    THEN [image_path |-> fr.image_path,
          image_name |-> Stem(fr.image_path),
          individual_captions |-> DictZip(fr.caption_sources, fr.captions),
          user_caption |-> fr.user_caption,
          merged_caption |-> fr.merged_caption,
          error |-> fr.merged_caption,
          success |-> FALSE]
    ELSE [image_path |-> fr.image_path,
          image_name |-> Stem(fr.image_path),
          individual_captions |-> DictZip(fr.caption_sources, fr.captions),
          user_caption |-> fr.user_caption,
          merged_caption |-> fr.merged_caption,
          success |-> TRUE]

\* The result dictionary of a run that reached the end of the try body.
SuccessResult(fr) ==
    [image_path |-> fr.image_path,
     image_name |-> Stem(fr.image_path),
     individual_captions |-> DictZip(fr.caption_sources, fr.captions),
     user_caption |-> fr.user_caption,
     merged_caption |-> fr.merged_caption,
     success |-> TRUE]

\* The result dictionary the outer except clause builds.
FailureResult(fr, message) ==
    [image_path |-> fr.image_path,
     image_name |-> Stem(fr.image_path),
     error |-> Str(message),
     success |-> FALSE]

\* open(caption_file, 'w') creates or truncates the file; f.write replaces
\* its content.
WriteFile(files, name, content) ==
    {f \in files : f.name # name} \cup {[name |-> name, content |-> content]}

\* A _save_caption that writes the user caption of the result.
SaveCaptionOfUserCaption(o, result, io) ==
    IF io = "oserror"
    THEN [out |-> [o EXCEPT !.dir = TRUE, !.captions_dir = TRUE],
          raised |-> TRUE, message |-> <<"OSError">>]
    ELSE [out |-> [o EXCEPT !.dir = TRUE, !.captions_dir = TRUE,
                            !.caption_files =
                                WriteFile(@, result.image_name,
                                          result.user_caption)],
          raised |-> FALSE, message |-> <<>>]

\* _save_caption: "ok", or "oserror" when the file cannot be opened.  With a
\* merged caption of None the file is opened (created empty) and f.write
\* raises TypeError.
SaveCaption(o, result, io) ==
    IF io = "oserror"
    THEN [out |-> [o EXCEPT !.dir = TRUE, !.captions_dir = TRUE],
          raised |-> TRUE, message |-> <<"OSError">>]
    ELSE IF result.merged_caption.t # "str"
    THEN [out |-> [o EXCEPT !.dir = TRUE, !.captions_dir = TRUE,
                            !.caption_files =
                                WriteFile(@, result.image_name, EmptyStr)],
          raised |-> TRUE, message |-> <<"TypeError">>]
    ELSE [out |-> [o EXCEPT !.dir = TRUE, !.captions_dir = TRUE,
                            !.caption_files =
                                WriteFile(@, result.image_name,
                                          result.merged_caption)],
          raised |-> FALSE, message |-> <<>>]

Budget == IF mode = "single" THEN MaxFaults ELSE MaxBatchFaults

CallSingle ==
    /\ pc = "ready"
    /\ mode = "single"
    /\ \E image_path \in SingleImages, user_caption \in UserCaptions,
          output_dir \in BOOLEAN :
            frame' = NewFrame(image_path, user_caption, output_dir)
    /\ pc' = "psi_fanout"
    /\ UNCHANGED <<cli, combined, sketch,
                   config, captioners, merger, caseInsensitive, fs, mode, batch,
                   out, trace, faults, outcome>>

\* An iteration that calls a captioner whose backend failed once more
\* instead of recording the failure.
CaptionStepRetrying ==
    /\ pc = "psi_fanout"
    /\ Len(frame.captions) < Len(captioners)
    /\ \E o \in CaptionOutcomes :
        LET i == Len(frame.captions) + 1
            kind == captioners[i]
            r == caption_image(kind, frame.image_path, frame.user_caption, o)
        IN  /\ o # "text" => faults < Budget
            /\ faults' = IF o # "text" THEN faults + 1 ELSE faults
            /\ frame' = IF o = "error" THEN frame
                        ELSE [AfterCaption(frame, i, r) EXCEPT
                                !.backend = Append(@, o)]
            /\ trace' = trace \o CaptionEvents(frame, i, kind, r)
    /\ UNCHANGED <<cli, combined, sketch,
                   config, captioners, merger, caseInsensitive, fs, mode, pc,
                   batch, out, outcome>>

\* for i, captioner in enumerate(self.captioners): one iteration
CaptionStep ==
    /\ pc = "psi_fanout"
    /\ Len(frame.captions) < Len(captioners)
    /\ \E o \in CaptionOutcomes :
        LET i == Len(frame.captions) + 1
            kind == captioners[i]
            r == caption_image(kind, frame.image_path, frame.user_caption, o)
        IN  /\ o # "text" => faults < Budget
            /\ faults' = IF o # "text" THEN faults + 1 ELSE faults
            /\ frame' = [AfterCaption(frame, i, r) EXCEPT !.backend = Append(@, o)]
            /\ trace' = trace \o CaptionEvents(frame, i, kind, r)
    /\ UNCHANGED <<cli, combined, sketch,
                   config, captioners, merger, caseInsensitive, fs, mode, pc,
                   batch, out, outcome>>

\* A merge step that calls the merger only when some caption is not an error
\* text.
MergeStepUnlessAllFailed ==
    /\ pc = "psi_fanout"
    /\ Len(frame.captions) >= Len(captioners)
    /\ IF \A j \in 1..Len(frame.captions) :
                StartsWith(frame.captions[j], <<"Error">>)
       THEN /\ frame' = [frame EXCEPT !.merged_caption = Str(<<"No", "captions">>)]
            /\ UNCHANGED <<trace, faults>>
       ELSE \E o \in BackendOutcomes :
            LET r == merge_captions(frame.captions, frame.user_caption,
                                    Stem(frame.image_path), o)
            IN  /\ o # "text" => faults < Budget
                /\ faults' = IF o # "text" THEN faults + 1 ELSE faults
                /\ frame' = [AfterMerge(frame, r) EXCEPT !.merge_backend = o]
                /\ trace' = Append(trace, MergeEvent(frame.captions,
                                                     frame.user_caption,
                                                     Stem(frame.image_path)))
    /\ pc' = "psi_result"
    /\ UNCHANGED <<cli, combined, sketch,
                   config, captioners, merger, caseInsensitive, fs, mode, batch,
                   out, outcome>>

\* merged_caption = self.merger.merge_captions(captions, user_caption, image_name)
MergeStep ==
    /\ pc = "psi_fanout"
    /\ Len(frame.captions) >= Len(captioners)
    /\ \E o \in BackendOutcomes :
        LET r == merge_captions(frame.captions, frame.user_caption,
                                Stem(frame.image_path), o)
        IN  /\ o # "text" => faults < Budget
            /\ faults' = IF o # "text" THEN faults + 1 ELSE faults
            /\ frame' = [AfterMerge(frame, r) EXCEPT !.merge_backend = o]
            /\ trace' = Append(trace, MergeEvent(frame.captions, frame.user_caption,
                                                 Stem(frame.image_path)))
    /\ pc' = "psi_result"
    /\ UNCHANGED <<cli, combined, sketch,
                   config, captioners, merger, caseInsensitive, fs, mode, batch,
                   out, outcome>>

\* The result is built; without an output directory it is returned as is.
ResultStep ==
    /\ pc = "psi_result"
    /\ ~frame.output_dir
    /\ frame' = [frame EXCEPT !.result = SuccessResult(frame)]
    /\ pc' = "psi_return"
    /\ UNCHANGED <<cli, combined, sketch,
                   config, captioners, merger, caseInsensitive, fs, mode, batch,
                   out, trace, faults, outcome>>

\* The result is built and _save_caption called; when it raises, the outer
\* except clause builds the failure result.
SaveStep ==
    /\ pc = "psi_result"
    /\ frame.output_dir
    /\ \E io \in {"ok", "oserror"} :
        LET result == SuccessResult(frame)
            saved == SaveCaption(out, result, io)
        IN  /\ io # "ok" => faults < Budget
            /\ faults' = IF io # "ok" THEN faults + 1 ELSE faults
            /\ out' = saved.out
            /\ frame' = [frame EXCEPT
                            !.result = IF saved.raised
                                       THEN FailureResult(frame, saved.message)
                                       ELSE result,
                            !.save = IF saved.raised THEN saved.message[1] ELSE "ok"]
            /\ trace' = Append(trace, SaveCaptionEvent(result.image_name))
    /\ pc' = "psi_return"
    /\ UNCHANGED <<cli, combined, sketch,
                   config, captioners, merger, caseInsensitive, fs, mode, batch,
                   outcome>>

\* process_single_image returns to the caller of the entry point.
SingleReturn ==
    /\ pc = "psi_return"
    /\ mode = "single"
    /\ outcome' = [status |-> "returned", value |-> frame.result]
    /\ pc' = "returned"
    /\ UNCHANGED <<cli, combined, sketch,
                   config, captioners, merger, caseInsensitive, fs, mode, frame,
                   batch, out, trace, faults>>

\* ------------------------------------------------- process_image_folder
\* image_files, for one iteration order of the extension set and one order
\* in which the directory lists its files.
Discovered(f, extOrder, listing, ci) ==
    LET names == Extend(extOrder, listing, ScanFiles(f), ci)
    IN  [j \in 1..Len(names) |-> Path(ScanDir(f), names[j])]

\* A user caption that takes the file name, extension included, for the stem.
ContextForWithExtension(user_caption_source, image_file) ==
    IF user_caption_source = "folder" THEN Str(<<DirName(folder_path)>>)
    ELSE IF user_caption_source = "filename"
    THEN Str(<<image_file.name.stem, image_file.name.ext>>)
    ELSE EmptyStr

\* A user caption that takes, for "folder", the name of the directory the
\* image lies in.
ContextForParentFolder(user_caption_source, image_file) ==
    IF user_caption_source = "folder" THEN Str(<<DirName(image_file.dir)>>)
    ELSE IF user_caption_source = "filename" THEN Str(<<Stem(image_file)>>)
    ELSE EmptyStr

\* The user caption of one image under the caption source.
ContextFor(user_caption_source, image_file) ==
    IF user_caption_source = "folder" THEN Str(<<DirName(folder_path)>>)
    ELSE IF user_caption_source = "filename" THEN Str(<<Stem(image_file)>>)
    ELSE EmptyStr

\* A count of failures that goes by the error text of the merged caption.
CountFailedByErrorText(results) ==
    Cardinality({j \in 1..Len(results) :
        \/ ~results[j].success
        \/ StartsWith(results[j].merged_caption, <<"Error">>)})

\* len([r for r in results if r.get('success', False)])
CountSuccess(results) ==
    Cardinality({j \in 1..Len(results) : results[j].success})
CountFailed(results) ==
    Cardinality({j \in 1..Len(results) : ~results[j].success})

\* The dictionary _save_summary dumps.
Summary(results) ==
    [total_images |-> Len(results),
     successful |-> CountSuccess(results),
     failed |-> CountFailed(results),
     results |-> results]

\* A loop that also ends at the first failed result.
LoopDoneOrFailed(b) ==
    \/ Len(b.results) >= Len(b.image_files)
    \/ \E j \in 1..Len(b.results) : ~b.results[j].success

\* The for loop over image_files has no image left.
LoopDone(b) == Len(b.results) >= Len(b.image_files)

CallFolder ==
    /\ pc = "ready"
    /\ mode = "folder"
    /\ \E output_dir \in BOOLEAN, user_caption_source \in CaptionSources :
        batch' = [active |-> TRUE, output_dir |-> output_dir,
                  user_caption_source |-> user_caption_source,
                  image_files |-> <<>>, results |-> <<>>]
    /\ pc' = "pif_discover"
    /\ UNCHANGED <<cli, combined, sketch,
                   config, captioners, merger, caseInsensitive, fs, mode, frame,
                   out, trace, faults, outcome>>

\* if not folder_path.exists(): raise FileNotFoundError
DiscoverNotFound ==
    /\ pc = "pif_discover"
    /\ ~fs.exists
    /\ outcome' = [status |-> "raised", exception |-> "FileNotFoundError",
                   message |-> <<"Folder", "not", "found:", "folder">>]
    /\ pc' = "raised"
    /\ UNCHANGED <<cli, combined, sketch,
                   config, captioners, merger, caseInsensitive, fs, mode, frame,
                   batch, out, trace, faults>>

\* A discovery that makes the captions directory before it looks for images.
DiscoverEmptyAfterMkdir ==
    /\ pc = "pif_discover"
    /\ fs.exists
    /\ \E extOrder \in Perms(Relevant(ScanFiles(fs), caseInsensitive)),
          listing \in Perms(ScanFiles(fs)) :
            Discovered(fs, extOrder, listing, caseInsensitive) = <<>>
    /\ out' = IF batch.output_dir
              THEN [out EXCEPT !.dir = TRUE, !.captions_dir = TRUE]
              ELSE out
    /\ outcome' = [status |-> "raised", exception |-> "ValueError",
                   message |-> <<"No", "image", "files", "found", "in", "folder">>]
    /\ pc' = "raised"
    /\ UNCHANGED <<cli, combined, sketch,
                   config, captioners, merger, caseInsensitive, fs, mode, frame,
                   batch, trace, faults>>

\* if not image_files: raise ValueError
DiscoverEmpty ==
    /\ pc = "pif_discover"
    /\ fs.exists
    /\ \E extOrder \in Perms(Relevant(ScanFiles(fs), caseInsensitive)),
          listing \in Perms(ScanFiles(fs)) :
            Discovered(fs, extOrder, listing, caseInsensitive) = <<>>
    /\ outcome' = [status |-> "raised", exception |-> "ValueError",
                   message |-> <<"No", "image", "files", "found", "in", "folder">>]
    /\ pc' = "raised"
    /\ UNCHANGED <<cli, combined, sketch,
                   config, captioners, merger, caseInsensitive, fs, mode, frame,
                   batch, out, trace, faults>>

\* The images are found; the captions directory is made when an output
\* directory is given; results = [].
DiscoverFound ==
    /\ pc = "pif_discover"
    /\ fs.exists
    /\ \E extOrder \in Perms(Relevant(ScanFiles(fs), caseInsensitive)),
          listing \in Perms(ScanFiles(fs)) :
        LET found == Discovered(fs, extOrder, listing, caseInsensitive)
        IN  /\ found # <<>>
            /\ batch' = [batch EXCEPT !.image_files = found]
    /\ out' = IF batch.output_dir
              THEN [out EXCEPT !.dir = TRUE, !.captions_dir = TRUE]
              ELSE out
    /\ pc' = "pif_loop"
    /\ UNCHANGED <<cli, combined, sketch,
                   config, captioners, merger, caseInsensitive, fs, mode, frame,
                   trace, faults, outcome>>

\* for image_file in image_files: the user caption is determined and
\* process_single_image called.
FolderNext ==
    /\ pc = "pif_loop"
    /\ ~LoopDone(batch)
    /\ LET image_file == batch.image_files[Len(batch.results) + 1]
       IN  frame' = NewFrame(image_file,
                             ContextFor(batch.user_caption_source, image_file),
                             batch.output_dir)
    /\ pc' = "psi_fanout"
    /\ UNCHANGED <<cli, combined, sketch,
                   config, captioners, merger, caseInsensitive, fs, mode, batch,
                   out, trace, faults, outcome>>

\* A loop body that also saves the summary of the results so far.
FolderAppendSavingSummary ==
    /\ pc = "psi_return"
    /\ batch.active
    /\ batch' = [batch EXCEPT !.results = Append(@, frame.result)]
    /\ out' = IF batch.output_dir
              THEN [out EXCEPT !.summary = <<Summary(batch'.results)>>]
              ELSE out
    /\ trace' = IF batch.output_dir
                THEN trace \o <<SaveSummaryEvent, SleepEvent(5)>>
                ELSE Append(trace, SleepEvent(5))
    /\ frame' = NoFrame
    /\ pc' = "pif_loop"
    /\ UNCHANGED <<cli, combined, sketch,
                   config, captioners, merger, caseInsensitive, fs, mode,
                   faults, outcome>>

\* results.append(result); time.sleep(0.5)
FolderAppend ==
    /\ pc = "psi_return"
    /\ batch.active
    /\ batch' = [batch EXCEPT !.results = Append(@, frame.result)]
    /\ trace' = Append(trace, SleepEvent(5))
    /\ frame' = NoFrame
    /\ pc' = "pif_loop"
    /\ UNCHANGED <<cli, combined, sketch,
                   config, captioners, merger, caseInsensitive, fs, mode, out,
                   faults, outcome>>

\* After the loop: the summary is saved when an output directory is given,
\* and the results are returned.
FolderSummary ==
    /\ pc = "pif_loop"
    /\ LoopDone(batch)
    /\ out' = IF batch.output_dir
              THEN [out EXCEPT !.summary = <<Summary(batch.results)>>]
              ELSE out
    /\ trace' = IF batch.output_dir THEN Append(trace, SaveSummaryEvent) ELSE trace
    \* The caller is the entry point, or process_with_sketches, which keeps
    \* the list as its captioning results.
    /\ IF combined.active
       THEN /\ combined' = [combined EXCEPT
                                !.results.captioning_results = <<batch.results>>]
            /\ pc' = "pws_sketch"
            /\ UNCHANGED outcome
       ELSE /\ outcome' = [status |-> "returned", value |-> batch.results]
            /\ pc' = "returned"
            /\ UNCHANGED combined
    /\ UNCHANGED <<cli, sketch, config, captioners, merger, caseInsensitive, fs, mode,
                   frame, batch, faults>>

\* ------------------------------------------------------ SketchGenerator
\* What the external process can do: subprocess.run raises, or the process
\* exits with a return code, having written stdout and stderr, and leaves the
\* directory <output>/<model> present or absent with some *_out.png files.
SubprocessRuns ==
    {r \in [raises : BOOLEAN, returncode : {0, 1},
            stdout : {<<>>, <<"out">>}, stderr : {<<>>, <<"err">>},
            sketch_dir : BOOLEAN, sketch_files : 0..MaxSketches] :
        /\ r.sketch_files > 0 => r.sketch_dir
        /\ r.raises => /\ r.returncode = 0
                       /\ r.stdout = <<>>
                       /\ r.stderr = <<>>
                       /\ r.sketch_files = 0}

\* What a call of the sketch generator does: it raises, or returns a result
\* dictionary; started tells whether subprocess.run was called.
SketchRaised(exception, started) ==
    [raised |-> TRUE, exception |-> exception, started |-> started]
SketchReturned(value, started) ==
    [raised |-> FALSE, value |-> value, started |-> started]

\* SketchGenerator.generate_sketches.  listable: list_available_models, which
\* the "checkpoint not found" message calls, returns rather than raises.
generate_sketches(input_exists, has_images, checkpoint, listable, run) ==
    IF ~input_exists THEN SketchRaised("FileNotFoundError", FALSE)
    ELSE IF ~has_images
    THEN SketchReturned([success |-> FALSE,
                         error |-> <<"No", "image", "files", "found", "in:">>],
                        FALSE)
    ELSE IF ~checkpoint
    THEN IF listable
         THEN SketchReturned([success |-> FALSE,
                              error |-> <<"Model", "checkpoint", "not",
                                          "found:">>],
                             FALSE)
         \* The except clause calls os.chdir(original_cwd) before
         \* original_cwd is assigned.
         ELSE SketchRaised("UnboundLocalError", FALSE)
    ELSE IF run.raises
    THEN SketchReturned([success |-> FALSE,
                         error |-> <<"Exception", "during", "sketch",
                                     "generation:">>],
                        TRUE)
    ELSE IF run.returncode = 0
    THEN IF run.sketch_dir
         THEN SketchReturned([success |-> TRUE,
                              output_dir |-> "sketch_dir",
                              sketches_generated |-> run.sketch_files,
                              stdout |-> run.stdout,
                              stderr |-> run.stderr],
                             TRUE)
         ELSE SketchReturned([success |-> FALSE,
                              error |-> <<"Output", "directory", "not",
                                          "created:">>,
                              stdout |-> run.stdout,
                              stderr |-> run.stderr],
                             TRUE)
    ELSE SketchReturned([success |-> FALSE,
                         error |-> <<"Sketch", "generation", "failed", "with",
                                     "return", "code", run.returncode>>
                                   \o (IF run.stderr # <<>>
                                       THEN <<"Stderr:">> \o run.stderr
                                       ELSE <<>>)
                                   \o (IF run.stdout # <<>>
                                       THEN <<"Stdout:">> \o run.stdout
                                       ELSE <<>>),
                         stdout |-> run.stdout,
                         stderr |-> run.stderr,
                         return_code |-> run.returncode],
                        TRUE)

\* SketchGenerator.process_single_image: the image is copied to a temporary
\* input directory (copied: the copy succeeds), sketches are generated from
\* it, and the sketch of the image, when there is one, is moved to the output
\* directory.
sketch_process_single_image(copied, image_is_listed, checkpoint, listable, run) ==
    LET r == generate_sketches(TRUE, image_is_listed, checkpoint, listable, run)
    IN  \* shutil.copy2 raises outside any except clause
        IF ~copied THEN SketchRaised("OSError", FALSE)
        ELSE IF ~r.raised /\ r.value.success /\ run.sketch_files > 0
        THEN [r EXCEPT !.value = [f \in DOMAIN r.value \cup {"final_sketch_path"}
                                    |-> IF f = "final_sketch_path"
                                        THEN "stem_sketch.png"
                                        ELSE r.value[f]]]
        ELSE r

\* The files of a directory the sketch generator's globs match.
HasImages(files) == Relevant(files, caseInsensitive) # {}

\* What list_available_models did, when it was called.
Listing(called, listable) ==
    IF ~called THEN "-" ELSE IF listable THEN "listed" ELSE "raised"

\* The record of one call of the sketch generator.
AfterSketch(checkpoint, listing, run, r) ==
    [checkpoint |-> IF checkpoint THEN "present" ELSE "missing",
     listing |-> listing,
     runs |-> IF r.started THEN <<run>> ELSE <<>>,
     returned |-> IF r.raised THEN <<>> ELSE <<r.value>>]

\* A sketch-only run: generate_sketches is called on the input folder.
SketchOnly ==
    /\ pc = "ready"
    /\ mode = "sketch"
    /\ \E checkpoint \in BOOLEAN, listable \in BOOLEAN, run \in SubprocessRuns :
        LET r == generate_sketches(fs.exists, HasImages(fs.files), checkpoint,
                                   listable, run)
        IN  /\ sketch' = AfterSketch(checkpoint,
                                     Listing(/\ fs.exists
                                             /\ HasImages(fs.files)
                                             /\ ~checkpoint, listable),
                                     run, r)
            /\ outcome' = IF r.raised
                          THEN [status |-> "raised", exception |-> r.exception,
                                message |-> <<>>]
                          ELSE [status |-> "returned", value |-> r.value]
            /\ pc' = IF r.raised THEN "raised" ELSE "returned"
    \* output_path.mkdir, once the input directory is known to exist
    /\ out' = IF fs.exists THEN [out EXCEPT !.dir = TRUE] ELSE out
    /\ UNCHANGED <<cli, combined, config, captioners, merger, caseInsensitive,
                   fs, mode, frame, batch, trace, faults>>

\* ------------------------------- CombinedPipeline.process_with_sketches
CombinedUserCaptions == {Str(<<"ctx">>)}

NewCombined(input_is_file, caption_source, user_caption, generate) ==
    [active |-> TRUE, input_is_file |-> input_is_file,
     caption_source |-> caption_source, user_caption |-> user_caption,
     generate_sketches |-> generate,
     results |-> [captioning_results |-> <<>>, sketch_results |-> <<>>,
                  success |-> FALSE, error |-> <<>>]]

\* The context of a single image file under the caption source.
UserContext(caption_source, user_caption, input_path) ==
    IF caption_source = "manual" THEN user_caption
    ELSE IF caption_source = "filename" THEN Str(<<Stem(input_path)>>)
    ELSE Str(<<DirName(input_path.dir)>>)

\* process_with_sketches on an image file: the output directory is made and
\* process_single_image called with the context.
ProcessWithSketchesFile(f, caption_source, user_caption, generate) ==
    /\ combined' = NewCombined(TRUE, caption_source, user_caption, generate)
    /\ out' = [out EXCEPT !.dir = TRUE]
    /\ frame' = NewFrame(Path(folder_path, f),
                         UserContext(caption_source, user_caption,
                                     Path(folder_path, f)),
                         TRUE)
    /\ pc' = "psi_fanout"
    /\ UNCHANGED <<sketch, config, captioners, merger, caseInsensitive, fs, mode,
                   batch, trace, faults, outcome>>

\* process_with_sketches on anything else: the output directory is made and
\* process_image_folder called with the caption source; the user caption is
\* not passed on.
ProcessWithSketchesFolder(caption_source, user_caption, generate) ==
    /\ combined' = NewCombined(FALSE, caption_source, user_caption, generate)
    /\ out' = [out EXCEPT !.dir = TRUE]
    /\ batch' = [active |-> TRUE, output_dir |-> TRUE,
                 user_caption_source |-> caption_source,
                 image_files |-> <<>>, results |-> <<>>]
    /\ pc' = "pif_discover"
    /\ UNCHANGED <<sketch, config, captioners, merger, caseInsensitive, fs, mode,
                   frame, trace, faults, outcome>>

\* A caller passes an image file of the folder to process_with_sketches.
CallCombinedFile ==
    /\ pc = "ready"
    /\ mode = "combined"
    /\ fs.exists
    /\ \E f \in fs.files, caption_source \in CaptionSources,
          user_caption \in CombinedUserCaptions, generate \in BOOLEAN :
        ProcessWithSketchesFile(f, caption_source, user_caption, generate)
    /\ UNCHANGED cli

\* A caller passes the folder to process_with_sketches.
CallCombinedFolder ==
    /\ pc = "ready"
    /\ mode = "combined"
    /\ \E caption_source \in CaptionSources,
          user_caption \in CombinedUserCaptions, generate \in BOOLEAN :
        ProcessWithSketchesFolder(caption_source, user_caption, generate)
    /\ UNCHANGED cli

\* results["captioning_results"] = [caption_result]
CombinedCaptioned ==
    /\ pc = "psi_return"
    /\ combined.active
    /\ combined.input_is_file
    /\ combined' = [combined EXCEPT
                        !.results.captioning_results = <<<<frame.result>>>>]
    /\ pc' = "pws_sketch"
    /\ UNCHANGED <<cli, sketch, config, captioners, merger, caseInsensitive, fs, mode,
                   frame, batch, out, trace, faults, outcome>>

\* A process_with_sketches without the except clause: the exception of
\* process_image_folder leaves it.
CombinedExceptReraising ==
    /\ pc = "raised"
    /\ combined.active
    /\ batch' = NoBatch
    /\ pc' = "propagated"
    /\ UNCHANGED <<cli, combined, sketch, config, captioners, merger,
                   caseInsensitive, fs, mode, frame, out, trace, faults, outcome>>

\* except Exception as e: an exception of process_image_folder ends the run
\* with the results so far and the error text.
CombinedExcept ==
    /\ pc = "raised"
    /\ combined.active
    /\ combined' = [combined EXCEPT !.results.error = <<outcome.exception>>]
    /\ outcome' = [status |-> "returned", value |-> combined'.results]
    /\ batch' = NoBatch
    /\ pc' = "returned"
    /\ UNCHANGED <<cli, sketch, config, captioners, merger, caseInsensitive, fs, mode,
                   frame, out, trace, faults>>

\* if generate_sketches is false: results["success"] = True
CombinedSkipSketches ==
    /\ pc = "pws_sketch"
    /\ ~combined.generate_sketches
    /\ combined' = [combined EXCEPT !.results.success = TRUE]
    /\ outcome' = [status |-> "returned", value |-> combined'.results]
    /\ pc' = "returned"
    /\ UNCHANGED <<cli, sketch, config, captioners, merger, caseInsensitive, fs, mode,
                   frame, batch, out, trace, faults>>

\* check_model_availability() is false: the available models are listed and
\* the results returned as they are; when the listing raises, the except
\* clause adds the error text.
CombinedModelMissing ==
    /\ pc = "pws_sketch"
    /\ combined.generate_sketches
    /\ \E listable \in BOOLEAN :
        /\ combined' = IF listable THEN combined
                       ELSE [combined EXCEPT !.results.error = <<"OSError">>]
        /\ sketch' = [sketch EXCEPT !.checkpoint = "missing",
                                    !.listing = Listing(TRUE, listable)]
    /\ outcome' = [status |-> "returned", value |-> combined'.results]
    /\ pc' = "returned"
    /\ UNCHANGED <<cli, config, captioners, merger, caseInsensitive, fs, mode, frame,
                   batch, out, trace, faults>>

\* The runs of the external process drawn for a combined run: those that
\* print nothing.
CombinedRuns == {r \in SubprocessRuns : r.stdout = <<>> /\ r.stderr = <<>>}

\* A combined run that takes over the success of the sketch result.
CombinedGenerateRequiringSketches ==
    /\ pc = "pws_sketch"
    /\ combined.generate_sketches
    /\ \E run \in CombinedRuns, copied \in BOOLEAN :
        LET r == IF combined.input_is_file
                 THEN sketch_process_single_image(
                          copied, HasImages({frame.image_path.name}), TRUE, TRUE,
                          run)
                 ELSE generate_sketches(fs.exists, HasImages(fs.files), TRUE,
                                        TRUE, run)
        IN  /\ ~combined.input_is_file => copied
            /\ sketch' = AfterSketch(TRUE, "-", run, r)
            /\ combined' = IF r.raised
                           THEN [combined EXCEPT !.results.error = <<r.exception>>]
                           ELSE [combined EXCEPT
                                    !.results.sketch_results = <<r.value>>,
                                    !.results.success = r.value.success]
    /\ outcome' = [status |-> "returned", value |-> combined'.results]
    /\ pc' = "returned"
    /\ UNCHANGED <<cli, config, captioners, merger, caseInsensitive, fs, mode,
                   frame, batch, out, trace, faults>>

\* check_model_availability() is true: the sketches are generated, the
\* result kept, and results["success"] = True; when the sketch call raises,
\* the except clause adds the error text instead.
CombinedGenerate ==
    /\ pc = "pws_sketch"
    /\ combined.generate_sketches
    /\ \E run \in CombinedRuns, copied \in BOOLEAN :
        LET r == IF combined.input_is_file
                 THEN sketch_process_single_image(
                          copied, HasImages({frame.image_path.name}), TRUE, TRUE,
                          run)
                 ELSE generate_sketches(fs.exists, HasImages(fs.files), TRUE,
                                        TRUE, run)
        IN  /\ ~combined.input_is_file => copied
            /\ sketch' = AfterSketch(TRUE, "-", run, r)
            /\ combined' = IF r.raised
                           THEN [combined EXCEPT !.results.error = <<r.exception>>]
                           ELSE [combined EXCEPT
                                    !.results.sketch_results = <<r.value>>,
                                    !.results.success = TRUE]
    /\ outcome' = [status |-> "returned", value |-> combined'.results]
    /\ pc' = "returned"
    /\ UNCHANGED <<cli, config, captioners, merger, caseInsensitive, fs, mode,
                   frame, batch, out, trace, faults>>

\* ------------------------------------------------------------------ main
\* The options of a run that generates captions: the caption source, the
\* user caption, --generate-sketches, and whether --output is given.
CliOptions ==
    {o \in [active : {TRUE}, caption_source : CaptionSources,
            user_caption : CombinedUserCaptions, generate_sketches : BOOLEAN,
            output : BOOLEAN] :
        \* process_with_sketches makes up for a missing --output
        o.generate_sketches => o.output}

\* any([config['groq_api_key'], config['gemini_api_key']])
KeysValidated(cfg) == cfg.groq_api_key \/ cfg.gemini_api_key

Exited(exception, message) ==
    [status |-> "exited", code |-> 1, exception |-> exception,
     message |-> message]

\* No API key is found: the error is printed and the process exits.
MainNoKeys ==
    /\ pc = "main"
    /\ ~KeysValidated(config)
    /\ outcome' = Exited("-", <<"Error:", "No", "API", "keys", "found.">>)
    /\ pc' = "exited"
    /\ UNCHANGED <<cli, combined, sketch, config, captioners, merger,
                   caseInsensitive, fs, mode, frame, batch, out, trace, faults>>

\* The keys are validated and the pipeline is about to be constructed.
MainValidated ==
    /\ pc = "main"
    /\ KeysValidated(config)
    /\ cli' \in CliOptions
    /\ pc' = "new"
    /\ UNCHANGED <<combined, sketch, config, captioners, merger,
                   caseInsensitive, fs, mode, frame, batch, out, trace, faults,
                   outcome>>

\* should_generate_captions and should_generate_sketches: the options go to
\* process_with_sketches as they are, with generate_sketches=True.
MainCombined ==
    /\ pc = "ready"
    /\ mode = "main"
    /\ cli.generate_sketches
    /\ \/ /\ fs.exists
          /\ \E f \in fs.files :
                ProcessWithSketchesFile(f, cli.caption_source,
                                        cli.user_caption, TRUE)
       \/ ProcessWithSketchesFolder(cli.caption_source, cli.user_caption, TRUE)
    /\ UNCHANGED cli

\* Captions only, input_path.is_file(): process_single_image is called with
\* the context of the caption source.
MainCaptionFile ==
    /\ pc = "ready"
    /\ mode = "main"
    /\ ~cli.generate_sketches
    /\ fs.exists
    /\ \E f \in fs.files :
        frame' = NewFrame(Path(folder_path, f),
                          UserContext(cli.caption_source, cli.user_caption,
                                      Path(folder_path, f)),
                          cli.output)
    /\ pc' = "psi_fanout"
    /\ UNCHANGED <<cli, combined, sketch, config, captioners, merger,
                   caseInsensitive, fs, mode, batch, out, trace, faults,
                   outcome>>

\* if caption_source == 'manual': caption_src = 'folder'
CaptionSrc(caption_source) ==
    IF caption_source = "manual" THEN "folder" ELSE caption_source

\* Captions only, input_path.is_dir(): process_image_folder is called with
\* the caption source, "folder" standing in for "manual".
MainCaptionFolder ==
    /\ pc = "ready"
    /\ mode = "main"
    /\ ~cli.generate_sketches
    /\ fs.exists
    /\ batch' = [active |-> TRUE, output_dir |-> cli.output,
                 user_caption_source |-> CaptionSrc(cli.caption_source),
                 image_files |-> <<>>, results |-> <<>>]
    /\ pc' = "pif_discover"
    /\ UNCHANGED <<cli, combined, sketch, config, captioners, merger,
                   caseInsensitive, fs, mode, frame, out, trace, faults,
                   outcome>>

\* Captions only, and the input path is neither a file nor a directory:
\* nothing is called.
MainCaptionNothing ==
    /\ pc = "ready"
    /\ mode = "main"
    /\ ~cli.generate_sketches
    /\ ~fs.exists
    /\ outcome' = [status |-> "returned", value |-> NoneValue]
    /\ pc' = "returned"
    /\ UNCHANGED <<cli, combined, sketch, config, captioners, merger,
                   caseInsensitive, fs, mode, frame, batch, out, trace, faults>>

\* process_single_image returns to main, which prints the merged caption or
\* the error.
MainCaptioned ==
    /\ pc = "psi_return"
    /\ mode = "main"
    /\ ~batch.active
    /\ ~combined.active
    /\ outcome' = [status |-> "returned", value |-> frame.result]
    /\ pc' = "returned"
    /\ UNCHANGED <<cli, combined, sketch, config, captioners, merger,
                   caseInsensitive, fs, mode, frame, batch, out, trace, faults>>

\* except Exception as e: the error of the constructor or of
\* process_image_folder is printed and the process exits.
MainExcept ==
    /\ pc = "raised"
    /\ mode = "main"
    /\ ~combined.active
    /\ outcome' = Exited(outcome.exception, outcome.message)
    /\ batch' = NoBatch
    /\ pc' = "exited"
    /\ UNCHANGED <<cli, combined, sketch, config, captioners, merger,
                   caseInsensitive, fs, mode, frame, out, trace, faults>>

\* ------------------------------------------------------- specification
Next ==
    \/ ConstructOk
    \/ ConstructRaises
    \/ CallSingle
    \/ CaptionStep
    \/ MergeStep
    \/ ResultStep
    \/ SaveStep
    \/ SingleReturn
    \/ CallFolder
    \/ DiscoverNotFound
    \/ DiscoverEmpty
    \/ DiscoverFound
    \/ FolderNext
    \/ FolderAppend
    \/ FolderSummary
    \/ SketchOnly
    \/ CallCombinedFile
    \/ CallCombinedFolder
    \/ CombinedCaptioned
    \/ CombinedExcept
    \/ CombinedSkipSketches
    \/ CombinedModelMissing
    \/ CombinedGenerate
    \/ MainNoKeys
    \/ MainValidated
    \/ MainCombined
    \/ MainCaptionFile
    \/ MainCaptionFolder
    \/ MainCaptionNothing
    \/ MainCaptioned
    \/ MainExcept

Spec == Init /\ [][Next]_vars

\* ---------------------------------------------------------------- claims
Range(seq) == {seq[j] : j \in 1..Len(seq)}

\* The results process_single_image has returned so far in this run.
ReturnedResults ==
    (IF batch.active THEN Range(batch.results) ELSE {})
    \cup (IF pc = "psi_return" THEN {frame.result} ELSE {})
    \cup (IF mode = "single" /\ pc = "returned" THEN {outcome.value} ELSE {})
    \cup (IF mode = "main" /\ pc = "returned" /\ frame.active
                /\ ~combined.active
          THEN {outcome.value} ELSE {})

ErrorGenerating == <<"Error", "generating">>
ErrorMerging == <<"Error", "merging">>

\* The caption values a captioner of this class can contribute.
ValuesOf(kind) ==
    {Str(<<"caption", "by", kind>>),
     Str(<<"Error", "generating", SentinelVendor(kind), "caption:", "detail">>),
     Str(<<"Failed", "to", "generate", "caption:", "detail">>)}

\* individual_captions has one entry per configured captioner, entry j
\* labelled for captioner j and holding a value of captioner j.
EntriesInFanOutOrder(r) ==
    /\ Len(r.individual_captions) = Len(captioners)
    /\ \A j \in 1..Len(captioners) :
        /\ r.individual_captions[j].key \in {<<"Model", j>>, <<"Model", j, "Error">>}
        /\ r.individual_captions[j].value \in ValuesOf(captioners[j])

C2_SummaryCountsAddUp ==
    \A k \in 1..Len(out.summary) :
        /\ out.summary[k].successful + out.summary[k].failed
               = out.summary[k].total_images
        /\ out.summary[k].total_images = Len(out.summary[k].results)

\* A summary of a batch with a successful and a failed image.
C2_Witness ==
    /\ out.summary # <<>>
    /\ out.summary[1].successful >= 1
    /\ out.summary[1].failed >= 1

IsMerge(e) == e.op = "merge_captions"
MergeEvents == SelectSeq(trace, IsMerge)

\* The images whose processing has passed the merge step.
ImagesPastMerge ==
    (IF batch.active THEN Len(batch.results) ELSE 0)
    + (IF pc \in {"psi_result", "psi_return"} THEN 1 ELSE 0)
    + (IF mode = "single" /\ pc = "returned" THEN 1 ELSE 0)
    + (IF mode = "main" /\ pc = "returned" /\ frame.active
            /\ ~combined.active
       THEN 1 ELSE 0)
    + (IF combined.active /\ combined.input_is_file
            /\ pc \in {"pws_sketch", "returned"} THEN 1 ELSE 0)

\* C3: the merger is invoked exactly once per image, with as many strings as
\* there are configured captioners, also when every caption is an error text.
C3_MergeOncePerImage ==
    /\ Len(MergeEvents) = ImagesPastMerge
    /\ \A k \in 1..Len(MergeEvents) :
        /\ Len(MergeEvents[k].captions) = Len(captioners)
        /\ \A j \in 1..Len(captioners) : MergeEvents[k].captions[j].t = "str"

\* Three captioners all failed and the merger received the three error texts.
C3_Witness ==
    /\ Len(captioners) = 3
    /\ \E k \in 1..Len(MergeEvents) :
        /\ Len(MergeEvents[k].captions) = 3
        /\ \A j \in 1..3 : StartsWith(MergeEvents[k].captions[j], ErrorGenerating)

\* C4: whatever the captioners and the merger did, process_single_image
\* returns success = true unless saving the caption raised; the error text
\* of a failed captioner is its caption value and the error text of a failed
\* merge is the merged caption.
C4_ContainedFailureKeepsSuccess ==
    pc = "psi_return" =>
        /\ ~frame.result.success => frame.save \in {"OSError", "TypeError"}
        /\ frame.save = "TypeError" => frame.merge_backend = "none"
        /\ frame.result.success =>
            /\ \A j \in 1..Len(captioners) :
                frame.backend[j] = "error" =>
                    StartsWith(frame.result.individual_captions[j].value,
                               ErrorGenerating)
            /\ frame.merge_backend = "error" =>
                    StartsWith(frame.result.merged_caption, ErrorMerging)

\* Every captioner failed, the merger failed, and the result is a success
\* that was saved.
C4_Witness ==
    /\ pc = "psi_return"
    /\ frame.result.success
    /\ frame.output_dir
    /\ Len(captioners) >= 2
    /\ \A j \in 1..Len(captioners) : frame.backend[j] = "error"
    /\ frame.merge_backend = "error"

\* C5: a failed image does not abort the batch: the failed result carries
\* its error, the batch does not raise once a result is recorded, and the
\* batch returns one result per discovered image, in order.
C5_FailureDoesNotAbortBatch ==
    /\ \A r \in ReturnedResults : ~r.success => /\ "error" \in DOMAIN r
                                                /\ r.error.t = "str"
    /\ (batch.active /\ batch.results # <<>>) => pc # "raised"
    /\ (mode = "folder" /\ pc = "returned") =>
        /\ Len(outcome.value) = Len(batch.image_files)
        /\ \A j \in 1..Len(batch.image_files) :
            outcome.value[j].image_path = batch.image_files[j]

\* A batch whose first image failed and whose second image succeeded.
C5_Witness ==
    /\ mode = "folder"
    /\ pc = "returned"
    /\ Len(outcome.value) >= 2
    /\ ~outcome.value[1].success
    /\ outcome.value[2].success

\* C6: no caption_image and no merge_captions call raises: a backend error
\* yields a returned text beginning with "Error generating" / "Error
\* merging", so the pipeline never labels a source as raised.
C6_NoBackendCallRaises ==
    /\ \A kind \in CaptionerKinds, o \in BackendOutcomes :
        LET r == caption_image(kind, Path(folder_path, File("a", ".JPG")), EmptyStr, o)
        IN  /\ ~r.raised
            /\ o = "error" => StartsWith(r.value, ErrorGenerating)
    /\ \A o \in BackendOutcomes :
        LET r == merge_captions(<<>>, EmptyStr, "a", o)
        IN  /\ ~r.raised
            /\ o = "error" => StartsWith(r.value, ErrorMerging)
    /\ frame.active =>
        /\ \A j \in 1..Len(frame.captions) :
            /\ frame.caption_sources[j] = <<"Model", j>>
            /\ frame.backend[j] = "error" =>
                    StartsWith(frame.captions[j], ErrorGenerating)
        /\ frame.merge_backend = "error" =>
                StartsWith(frame.merged_caption, ErrorMerging)

\* A fan-out in which a backend failed, followed by a failed merge.
C6_Witness ==
    /\ frame.active
    /\ \E j \in 1..Len(frame.captions) : frame.backend[j] = "error"
    /\ frame.merge_backend = "error"

\* The file has an image extension, in whatever case.
HasImageExtension(f) == Lower(f.ext) \in image_extensions
\* The file's extension is one of the allow-list, all lower-case or all
\* upper-case.
AllowListed(f) == \E e \in image_extensions : f.ext = e \/ f.ext = Upper(e)

Discovering == batch.active /\ pc = "pif_discover"
NothingWritten ==
    /\ ~out.captions_dir
    /\ out.caption_files = {}
    /\ out.summary = <<>>

\* C7: process_image_folder raises "not found" for a folder that does not
\* exist and "empty" for a folder without image files, and when it raises no
\* captioner or merger was called and no captions directory, caption file or
\* summary exists.
C7_BatchFailureBeforeAnyWork ==
    /\ (batch.active /\ ~Discovering /\ ~fs.exists) =>
            /\ pc = "raised"
            /\ outcome.exception = "FileNotFoundError"
    /\ (batch.active /\ ~Discovering /\ fs.exists
            /\ ~\E f \in fs.files \cup fs.images_files : HasImageExtension(f)) =>
            /\ pc = "raised"
            /\ outcome.exception = "ValueError"
    /\ (batch.active /\ pc = "raised") =>
            /\ outcome.exception \in {"FileNotFoundError", "ValueError"}
            /\ trace = <<>>
            /\ NothingWritten

\* An existing folder that holds files but no image, processed with an
\* output directory: "empty" was raised.
C7_Witness ==
    /\ batch.active
    /\ batch.output_dir
    /\ fs.files # {}
    /\ pc = "raised"
    /\ outcome.exception = "ValueError"

Discoveries == {batch.image_files[j] : j \in 1..Len(batch.image_files)}
AfterDiscovery == batch.active /\ pc \notin {"pif_discover", "raised"}

\* C8 (as stated): with folder/images present only that subfolder is scanned
\* and the images lying directly in the folder are ignored, so that one image
\* in folder/images and one in folder give one discovered image; without it
\* the folder itself is scanned.
C8_DatasetStructurePrecedence ==
    AfterDiscovery =>
        /\ \A p \in Discoveries : /\ p.dir = ScanDir(fs)
                                  /\ p.name \in ScanFiles(fs)
        /\ (/\ fs.images_exists
            /\ Cardinality({f \in fs.images_files : AllowListed(f)}) = 1
            /\ \E f \in fs.files : AllowListed(f))
                => Len(batch.image_files) = 1

\* C9 (as stated): a file of the scanned directory is in the working set
\* exactly when its extension is allow-listed in lower or in upper case, and
\* each such file is in the working set exactly once.
C9_ExtensionMatchingOnce ==
    AfterDiscovery =>
        /\ {p.name : p \in Discoveries} = {f \in ScanFiles(fs) : AllowListed(f)}
        /\ Len(batch.image_files)
               = Cardinality({f \in ScanFiles(fs) : AllowListed(f)})

IsCaption(e) == e.op = "caption_image"
CaptionCalls == SelectSeq(trace, IsCaption)

\* C10: under the "filename" caption source every configured captioner is
\* called for each image with the stem of that image as context, and the
\* merger with the same stem as user caption.
C10_FilenameContextIsStem ==
    (batch.active /\ batch.user_caption_source = "filename") =>
        LET n == Len(captioners)
        IN  /\ Len(CaptionCalls) = n * Len(batch.results)
                    + (IF frame.active THEN Len(frame.captions) ELSE 0)
            /\ \A k \in 1..Len(CaptionCalls) :
                LET image_file == batch.image_files[((k - 1) \div n) + 1]
                IN  /\ CaptionCalls[k].image_path = image_file
                    /\ CaptionCalls[k].index = ((k - 1) % n) + 1
                    /\ CaptionCalls[k].additional_context
                           = Str(<<image_file.name.stem>>)
            /\ \A k \in 1..Len(MergeEvents) :
                MergeEvents[k].user_caption = Str(<<MergeEvents[k].image_name>>)

\* A batch under "filename" with two captioners that has called them with
\* the stem "a" for one image and with the stem "b" for another.
C10_Witness ==
    /\ batch.active
    /\ batch.user_caption_source = "filename"
    /\ Len(captioners) = 2
    /\ pc = "returned"
    /\ \E k \in 1..Len(CaptionCalls) :
            CaptionCalls[k].additional_context = Str(<<"a">>)
    /\ \E k \in 1..Len(CaptionCalls) :
            CaptionCalls[k].additional_context = Str(<<"b">>)

\* The caption calls and merges of a batch under the caption source given.
BatchUnder(source) == batch.active /\ batch.user_caption_source = source

\* C11 (as stated): under the "folder" caption source every captioner is
\* called, for each image, with the name of the directory that image lies
\* in, whether that is the folder itself or folder/images.
C11_FolderContextIsParentFolder ==
    BatchUnder("folder") =>
        \A k \in 1..Len(CaptionCalls) :
            CaptionCalls[k].additional_context
                = Str(<<DirName(CaptionCalls[k].image_path.dir)>>)

\* C11 (amended): under the "folder" caption source every captioner and the
\* merger are called, for each image, with the name of the folder the batch
\* was given: the directory of an image that lies directly in it, and the
\* directory above folder/images for an image discovered there.
C11_FolderContextIsBatchFolder ==
    BatchUnder("folder") =>
        /\ \A k \in 1..Len(CaptionCalls) :
            /\ CaptionCalls[k].additional_context = Str(<<DirName(folder_path)>>)
            /\ CaptionCalls[k].image_path.dir = folder_path =>
                    CaptionCalls[k].additional_context
                        = Str(<<DirName(CaptionCalls[k].image_path.dir)>>)
            /\ CaptionCalls[k].image_path.dir = images_folder =>
                    CaptionCalls[k].additional_context
                        # Str(<<DirName(CaptionCalls[k].image_path.dir)>>)
        /\ \A k \in 1..Len(MergeEvents) :
            MergeEvents[k].user_caption = Str(<<DirName(folder_path)>>)

\* A batch under "folder" over folder/images whose captioner was called with
\* the context "folder" for an image of folder/images.
C11_Witness ==
    /\ BatchUnder("folder")
    /\ fs.images_exists
    /\ pc = "returned"
    /\ \E k \in 1..Len(CaptionCalls) :
        /\ CaptionCalls[k].image_path.dir = images_folder
        /\ CaptionCalls[k].additional_context = Str(<<"folder">>)

\* C12 (as stated): a batch that process_with_sketches runs under the
\* "manual" caption source calls every captioner and the merger, for every
\* image, with the user caption its caller supplied.
C12_ManualContextIsCallerString ==
    (combined.active /\ ~combined.input_is_file
            /\ combined.caption_source = "manual") =>
        /\ \A k \in 1..Len(CaptionCalls) :
                CaptionCalls[k].additional_context = combined.user_caption
        /\ \A k \in 1..Len(MergeEvents) :
                MergeEvents[k].user_caption = combined.user_caption

\* C13 (as stated): in the result of process_single_image the entry of
\* captioner i is labelled "Model_i" when its backend answered and
\* "Model_i_Error" when its backend failed, and the entry of a failed
\* captioner holds the error text.
C13_FailedSourceLabelledError ==
    (pc = "psi_return" /\ frame.result.success) =>
        \A j \in 1..Len(captioners) :
            LET entry == frame.result.individual_captions[j]
                failed == frame.backend[j] = "error"
            IN  /\ entry.key = SourceLabel(j, failed)
                /\ failed => StartsWith(entry.value, ErrorGenerating)

\* The caption files named after the stem given.
CaptionFilesOf(stem) == {f \in out.caption_files : f.name = stem}

\* C14: when process_single_image returns success = true for a call with an
\* output directory, the captions directory holds one file named after the
\* image's stem, whose content is the merged caption of the result; during
\* and after a call without an output directory nothing has been written.
C14_CaptionArtifact ==
    /\ (pc = "psi_return" /\ frame.output_dir /\ frame.result.success) =>
            /\ out.captions_dir
            /\ CaptionFilesOf(Stem(frame.image_path))
                   = {[name |-> Stem(frame.image_path),
                       content |-> frame.result.merged_caption]}
    /\ (mode = "single" /\ pc = "returned" /\ frame.output_dir
            /\ outcome.value.success) =>
            CaptionFilesOf(outcome.value.image_name)
                = {[name |-> outcome.value.image_name,
                    content |-> outcome.value.merged_caption]}
    /\ (frame.active /\ ~frame.output_dir) => NothingWritten

\* A call with an output directory has returned success = true for a merged
\* caption that is the merger's error text, and the file holds that text.
C14_Witness ==
    /\ mode = "single"
    /\ pc = "returned"
    /\ frame.output_dir
    /\ outcome.value.success
    /\ StartsWith(outcome.value.merged_caption, ErrorMerging)
    /\ [name |-> "a", content |-> outcome.value.merged_caption]
            \in out.caption_files

IsSaveSummary(e) == e.op = "_save_summary"
SummarySaves == SelectSeq(trace, IsSaveSummary)
\* process_image_folder has left its loop and saved what it saves.
BatchDone == batch.active /\ pc \in {"pws_sketch", "returned"}

\* C15: the summary is written once, after the last image: while the batch
\* runs there is no summary, and the caption file of every image already
\* recorded with success = true exists; when the batch is done the summary
\* has been written once and holds the result of every discovered image.
C15_SummaryOnceAfterLastImage ==
    batch.active =>
        /\ ~BatchDone => /\ out.summary = <<>>
                         /\ SummarySaves = <<>>
        /\ (BatchDone /\ batch.output_dir) =>
                /\ Len(SummarySaves) = 1
                /\ out.summary = <<Summary(batch.results)>>
                /\ Len(batch.results) = Len(batch.image_files)
        /\ (BatchDone /\ ~batch.output_dir) => /\ out.summary = <<>>
                                               /\ SummarySaves = <<>>
        /\ batch.output_dir =>
                \A j \in 1..Len(batch.results) :
                    batch.results[j].success =>
                        CaptionFilesOf(batch.results[j].image_name) # {}

\* A batch of two images, interrupted after the first: its caption file
\* exists and there is no summary.
C15_Witness ==
    /\ batch.active
    /\ batch.output_dir
    /\ pc = "pif_loop"
    /\ Len(batch.image_files) = 2
    /\ Len(batch.results) = 1
    /\ batch.results[1].success
    /\ CaptionFilesOf(batch.results[1].image_name) # {}
    /\ out.summary = <<>>

\* The configuration holds no API key at all.
NoCredentials ==
    /\ ~config.openai_api_key
    /\ ~config.groq_api_key
    /\ ~config.gemini_api_key
\* The message says that the API keys are what is missing.
NamesApiKeys(message) ==
    \E j \in 1..(Len(message) - 1) : message[j] = "API" /\ message[j + 1] = "keys"

\* C16: a pipeline constructed from a configuration without any API key
\* raises an error whose message names the API keys, and the run ends there:
\* no captioner, no merger, no call on an image, nothing written.
C16_MissingCredentialsFailFast ==
    (mode \notin {"sketch", "main"} /\ NoCredentials /\ pc # "new") =>
        /\ pc = "raised"
        /\ outcome.status = "raised"
        /\ outcome.exception = "RuntimeError"
        /\ NamesApiKeys(outcome.message)
        /\ captioners = <<>>
        /\ ~merger
        /\ ~frame.active
        /\ ~batch.active
        /\ trace = <<>>
        /\ NothingWritten

\* The construction raised for a batch over a folder that holds an image.
C16_Witness ==
    /\ mode = "folder"
    /\ NoCredentials
    /\ pc = "raised"
    /\ \E f \in fs.files : HasImageExtension(f)
    /\ NamesApiKeys(outcome.message)

\* C17 (as stated): when a combined run that is to generate sketches finds
\* the model checkpoint missing, no captioner and no merger has been called
\* and no captions directory, caption file or summary has been written.
C17_MissingCheckpointBeforeAnyWork ==
    (combined.active /\ combined.generate_sketches
            /\ sketch.checkpoint = "missing") =>
        /\ trace = <<>>
        /\ NothingWritten

\* generate_sketches, called on the input folder, has returned or raised.
SketchCallOver == mode = "sketch" /\ pc \in {"returned", "raised"}

\* C18 (as stated): generate_sketches starts the external process only when
\* the model checkpoint exists; called on a folder of images with the
\* checkpoint missing it starts no process and returns success = false; and
\* when the process exits with a non-zero code it returns success = false
\* with the stdout and stderr of the process.
C18_CheckpointCheckedBeforeProcess ==
    SketchCallOver =>
        /\ sketch.runs # <<>> => sketch.checkpoint = "present"
        /\ (fs.exists /\ HasImages(fs.files) /\ sketch.checkpoint = "missing") =>
                /\ sketch.runs = <<>>
                /\ outcome.status = "returned"
                /\ ~outcome.value.success
        /\ (sketch.runs # <<>>
                /\ ~sketch.runs[1].raises /\ sketch.runs[1].returncode # 0) =>
                /\ outcome.status = "returned"
                /\ ~outcome.value.success
                /\ outcome.value.stdout = sketch.runs[1].stdout
                /\ outcome.value.stderr = sketch.runs[1].stderr

\* C19 (as stated): generate_sketches returns success = true only when the
\* external process exited with code 0 and left at least one *_out.png file
\* in the result directory.
C19_SuccessNeedsExitCodeAndFiles ==
    (SketchCallOver /\ outcome.status = "returned" /\ outcome.value.success) =>
        /\ sketch.runs # <<>>
        /\ sketch.runs[1].returncode = 0
        /\ sketch.runs[1].sketch_files >= 1

\* C20: every caption_image call of process_single_image, whether its
\* backend answered or failed, is followed at once by the one-second sleep,
\* so the sleep lies before the next captioner's call and before the merge.
C20_DelayAfterEveryCaptioner ==
    \A k \in 1..Len(trace) :
        trace[k].op = "caption_image" =>
            /\ k < Len(trace)
            /\ trace[k + 1] = SleepEvent(10)

\* Two captioners, the first failed and the second answered: call, sleep,
\* call, sleep, merge.
C20_Witness ==
    /\ mode = "single"
    /\ pc = "psi_result"
    /\ frame.backend = <<"error", "text">>
    /\ Len(trace) = 5
    /\ trace[1].op = "caption_image"
    /\ StartsWith(frame.captions[1], ErrorGenerating)
    /\ trace[2] = SleepEvent(10)
    /\ trace[3].op = "caption_image"
    /\ trace[4] = SleepEvent(10)
    /\ trace[5].op = "merge_captions"

\* C21 (as stated): process_single_image ends in the failure result
\* (success = false, an error, no merged caption) only from its start: in a
\* call that returns the failure result no captioner and no merger has been
\* called; a call that returns success = true has called every captioner and
\* then the merger.
C21_FailedOnlyFromStart ==
    pc = "psi_return" =>
        /\ ~frame.result.success =>
                /\ "merged_caption" \notin DOMAIN frame.result
                /\ "error" \in DOMAIN frame.result
                /\ frame.captions = <<>>
                /\ frame.merge_backend = "-"
        /\ frame.result.success =>
                /\ Len(frame.captions) = Len(captioners)
                /\ frame.merge_backend # "-"

IsBackendCall(e) == e.op \in {"caption_image", "merge_captions"}
BackendCalls == SelectSeq(trace, IsBackendCall)
IsImageDelay(e) == e = SleepEvent(5)
\* The backend calls and the inter-image delays before position p of the trace.
CallsBefore(p) == Cardinality({q \in 1..(p - 1) : IsBackendCall(trace[q])})
DelaysBefore(p) == Cardinality({q \in 1..(p - 1) : IsImageDelay(trace[q])})

\* C22: the backend calls of a batch are sequential and fixed: image after
\* image in discovery order, for each image every configured captioner once,
\* in the configured order, whether or not an earlier one failed, and then
\* the merger once; every call for an image comes after the results of all
\* earlier images were appended and their inter-image delays slept; and the
\* results are in discovery order.
C22_BackendCallsSequential ==
    batch.active =>
        LET n == Len(captioners)
        IN  /\ Len(BackendCalls)
                 = (n + 1) * Len(batch.results)
                     + (IF frame.active
                        THEN Len(frame.captions)
                                + (IF frame.merge_backend # "-" THEN 1 ELSE 0)
                        ELSE 0)
            /\ \A k \in 1..Len(BackendCalls) :
                LET img == ((k - 1) \div (n + 1)) + 1
                    pos == ((k - 1) % (n + 1)) + 1
                IN  /\ img <= Len(batch.image_files)
                    /\ IF pos <= n
                       THEN /\ BackendCalls[k].op = "caption_image"
                            /\ BackendCalls[k].index = pos
                            /\ BackendCalls[k].captioner = captioners[pos]
                            /\ BackendCalls[k].image_path = batch.image_files[img]
                       ELSE /\ BackendCalls[k].op = "merge_captions"
                            /\ Len(BackendCalls[k].captions) = n
                            /\ BackendCalls[k].image_name
                                 = Stem(batch.image_files[img])
            /\ \A p \in 1..Len(trace) :
                IsBackendCall(trace[p]) =>
                    /\ DelaysBefore(p) = CallsBefore(p) \div (n + 1)
                    /\ DelaysBefore(p) <= Len(batch.results)
            /\ DelaysBefore(Len(trace) + 1) = Len(batch.results)
            /\ \A j \in 1..Len(batch.results) :
                batch.results[j].image_path = batch.image_files[j]

\* A finished batch of two images with two captioners, the first of which
\* failed for the first image: four captioner calls and two merges.
C22_Witness ==
    /\ BatchDone
    /\ Len(captioners) = 2
    /\ Len(batch.results) = 2
    /\ batch.image_files[1] # batch.image_files[2]
    /\ batch.results[1].success
    /\ StartsWith(batch.results[1].individual_captions[1].value, ErrorGenerating)
    /\ Len(BackendCalls) = 6

\* C23 (as stated): in a run started from the command line with the caption
\* source "manual", a single image is processed with the user's string as
\* context, and every batch over a folder runs under the caption source
\* "folder": each captioner and the merger get the folder's name, not the
\* user's string.
C23_ManualReplacedByFolder ==
    (mode = "main" /\ cli.active /\ cli.caption_source = "manual") =>
        /\ (frame.active /\ ~batch.active) =>
                frame.user_caption = cli.user_caption
        /\ batch.active =>
                /\ batch.user_caption_source = "folder"
                /\ \A k \in 1..Len(CaptionCalls) :
                    /\ CaptionCalls[k].additional_context
                         = Str(<<DirName(folder_path)>>)
                    /\ CaptionCalls[k].additional_context # cli.user_caption
                /\ \A k \in 1..Len(MergeEvents) :
                    MergeEvents[k].user_caption = Str(<<DirName(folder_path)>>)

\* C24 (as stated): when a batch with an output directory is done, the
\* caption file named after every successful result holds that result's
\* merged caption, and there are as many caption files as the summary counts
\* successful results, also when two discovered images share a stem.
C24_CaptionFilesMatchResults ==
    (BatchDone /\ batch.output_dir) =>
        /\ \A j \in 1..Len(batch.results) :
            batch.results[j].success =>
                [name |-> batch.results[j].image_name,
                 content |-> batch.results[j].merged_caption]
                    \in out.caption_files
        /\ Cardinality(out.caption_files) = out.summary[1].successful

\* The run is past the construction of ImageCaptioningPipeline: main found
\* no key to start it with, or it has succeeded or raised.
PastConstruction ==
    /\ mode # "sketch"
    /\ pc \notin {"main", "new"}
    /\ ~(outcome.status = "exited" /\ outcome.exception = "-")
\* The construction raised; main has caught the error or not yet.
ConstructionRaised ==
    /\ outcome.status \in {"raised", "exited"}
    /\ outcome.exception = "RuntimeError"

CombinedOver == combined.active /\ pc = "returned"
\* What the returned results tell of the run.
CaptioningCompleted == combined.results.captioning_results # <<>>
SketchCallRaised == sketch.checkpoint = "present" /\ sketch.returned = <<>>
CombinedSucceeds ==
    /\ CaptioningCompleted
    /\ combined.generate_sketches => /\ sketch.checkpoint = "present"
                                     /\ ~SketchCallRaised

\* C26 (as stated): process_with_sketches returns success = true exactly
\* when the captioning completed without raising and, with sketches
\* requested, the checkpoint was available and the sketch call did not
\* raise; a sketch result with success = false leaves the overall success
\* true; a missing checkpoint gives success = false with the captioning
\* results kept and no error.
C26_CombinedSuccess ==
    CombinedOver =>
        /\ outcome.value = combined.results
        /\ combined.results.success <=> CombinedSucceeds
        /\ sketch.returned # <<>> =>
                /\ combined.results.success
                /\ combined.results.sketch_results = sketch.returned
        /\ sketch.checkpoint = "missing" =>
                /\ ~combined.results.success
                /\ CaptioningCompleted
                /\ combined.results.error = <<>>

\* C26 (amended): as stated, but with a missing checkpoint the results have
\* no error only when the available models could be listed; when listing
\* them raised the results carry that error.
C26_CombinedSuccessUnlessListingRaised ==
    CombinedOver =>
        /\ outcome.value = combined.results
        /\ combined.results.success <=> CombinedSucceeds
        /\ combined.results.success => combined.results.error = <<>>
        /\ sketch.returned # <<>> =>
                /\ combined.results.success
                /\ combined.results.sketch_results = sketch.returned
        /\ sketch.checkpoint = "missing" =>
                /\ ~combined.results.success
                /\ CaptioningCompleted
                /\ combined.results.sketch_results = <<>>
                /\ sketch.listing = "listed" => combined.results.error = <<>>
                /\ sketch.listing = "raised" => combined.results.error # <<>>
        /\ (~CaptioningCompleted \/ SketchCallRaised) =>
                combined.results.error # <<>>

\* A combined run over a folder has returned success = true although the
\* external process exited with a non-zero code and the sketch result is
\* success = false.
C26_Witness ==
    /\ CombinedOver
    /\ ~combined.input_is_file
    /\ combined.results.success
    /\ sketch.runs # <<>>
    /\ sketch.runs[1].returncode # 0
    /\ sketch.returned # <<>>
    /\ ~sketch.returned[1].success

\* The places of a run that is still inside process_with_sketches.
InsideCombined ==
    pc \in {"pif_discover", "pif_loop", "psi_fanout", "psi_result",
            "psi_return", "pws_sketch", "raised"}
\* process_with_sketches was given a folder that holds no image.
ImagelessFolder ==
    fs.exists /\ ~\E f \in ScanFiles(fs) : HasImageExtension(f)

\* C27: process_with_sketches lets no batch failure out: called on a folder
\* that does not exist or holds no image it ends by returning results with
\* success = false, the error and no captioning results, and the output
\* directory exists from its start on.
C27_BatchFailureIsReturned ==
    (combined.active /\ ~combined.input_is_file) =>
        /\ out.dir
        /\ ~InsideCombined => /\ pc = "returned"
                              /\ outcome.status = "returned"
                              /\ outcome.value = combined.results
        /\ ((~fs.exists \/ ImagelessFolder) /\ pc # "pif_discover") =>
                /\ pc \in {"raised", "returned"}
                /\ trace = <<>>
                /\ pc = "returned" =>
                    /\ ~combined.results.success
                    /\ combined.results.captioning_results = <<>>
                    /\ combined.results.error
                         = IF fs.exists THEN <<"ValueError">>
                                        ELSE <<"FileNotFoundError">>

\* process_with_sketches, called on a folder that holds a text file and no
\* image, has returned the error.
C27_Witness ==
    /\ combined.active
    /\ ~combined.input_is_file
    /\ fs.files = {File("n", ".txt")}
    /\ ~fs.images_exists
    /\ pc = "returned"
    /\ combined.results.error = <<"ValueError">>
    /\ out.dir
    /\ ~out.captions_dir

====
